---- MODULE Spec2Model ----
(***************************************************************************)
(* Auction bidding backend: bid acceptance (socket newBid and REST POST    *)
(* /api/bids), the recurring sweep that closes due auctions, and the       *)
(* status-update route.  Every await on the store is one step of a         *)
(* handler; the synchronous code that follows the await belongs to that    *)
(* step.  The repository holds several revisions of server.js and bids.js; *)
(* a deployment runs one revision of each.                                 *)
(***************************************************************************)
EXTENDS Integers, Sequences, FiniteSets, TLC

\* ---- bounds of the model ----
NumAuctions == 1
NumUsers == 2
MaxAmount == 3
AmountStep == 5
MaxTime == 3
NumReqs == 2
NumSweeps == 2
MaxStatusWrites == 1
MaxOps == 3
NumConns == 2
NumRegs == 3
NumNames == 2

\* ---- program constants (seconds) ----
GraceSeconds == 5
PoolZoneSeconds == 21600
RecentBidSeconds == 3
MinPastEnd == 1

Auctions == 1..NumAuctions
Missing == 0
AuctionIds == Auctions \cup {Missing}
Users == 1..NumUsers
NoUser == 0
Amounts == {AmountStep * i : i \in 0..MaxAmount}
Times == 0..MaxTime
Reqs == 1..NumReqs
Sweeps == 1..NumSweeps
BasePrices == {AmountStep}
EndTimes == {1}
Owners == {1}
Statuses == {"active", "ended"}
Conns == 1..NumConns

ServerVariants == {"server1", "server2", "part004", "part005"}
BidsVariants == {"rest1", "rest2"}
Paths == {"socket", "rest"}

VARIABLES deploy, now, auctions, bids, notifs, events, req, sw, closes, statusWrites,
          conn, nread, gone, del, faults, tz, answered, userRows, reg

vars == <<deploy, now, auctions, bids, notifs, events, req, sw, closes, statusWrites,
          conn, nread, gone, del, faults, tz, answered, userRows, reg>>

\* The usernames of the users table and the register requests.
accounts == <<userRows, reg>>

\* The store failures met by the sweep so far, the time references of the
\* process and of the store session, the user whose clear-read request was
\* answered, and the accounts.
aux == <<faults, tz, answered, accounts>>

\* The socket connections, the read flags of the notifications, the deleted
\* auctions and the delete request in flight.
admin == <<conn, nread, gone, del, aux>>

\* ---- the store ----

NotifKeys == Auctions \X (Users \cup {NoUser}) \X {"winner", "loser", "nobids"}

SeqMax(S) == CHOOSE x \in S : \A y \in S : y <= x

BidIdx(a) == {i \in 1..Len(bids) : bids[i].auc = a}

BidAmounts(a) == {bids[i].amount : i \in BidIdx(a)}

\* SELECT bid_amount FROM bids WHERE id_auctions = ? ORDER BY bid_amount DESC LIMIT 1
\* (-1 stands for the empty result)
HighestRow(a) == IF BidIdx(a) = {} THEN -1 ELSE SeqMax(BidAmounts(a))

Max2(x, y) == IF x >= y THEN x ELSE y

\* const highestBid = highest.length > 0 ? highest[0].bid_amount : auction.base_price
Threshold1(base, highest) == IF highest >= 0 THEN highest ELSE base

\* Math.max(basePrice, maxRows.length ? parseFloat(bid_amount) : 0)
Threshold2(base, highest) == Max2(base, IF highest >= 0 THEN highest ELSE 0)

\* GREATEST(a.base_price, COALESCE((SELECT MAX(bid_amount) ...), 0))
ThresholdSql(a) == Max2(auctions[a].base_price, IF HighestRow(a) >= 0 THEN HighestRow(a) ELSE 0)

SocketVariant == IF deploy.server \in {"server1", "part005"} THEN "socket1" ELSE "socket2"

IdleReq == [pc |-> "idle", path |-> "socket", auc |-> Missing, user |-> NoUser,
            amount |-> 0, text |-> FALSE, base |-> 0, outcome |-> "none",
            shown |-> -1]

IdleSweep == [pc |-> "idle", serverTime |-> 0, rows |-> <<>>, winner |-> 0, others |-> {}]

IdleConn == [state |-> "none", cred |-> "none", error |-> "", msgs |-> 0]

\* No time references chosen: the clocks of the process and of the store agree
\* and end_time is read as it was written.
IdleClock == [pc |-> "none"]

\* The register requests and the usernames they ask for.
Regs == 1..NumRegs
Usernames == 1..NumNames
IdleReg == [pc |-> "idle", name |-> 0, outcome |-> "none"]

IdleDel == [pc |-> "idle", auc |-> Missing, outcome |-> "none"]

\* Requests, sweep executions and status writes started so far.
Started ==
    Cardinality({r \in Reqs : req[r].pc # "idle"})
    + Cardinality({s \in Sweeps : sw[s].pc # "idle"}) + statusWrites
    + (IF del.pc # "idle" THEN 1 ELSE 0)

NewBid(a, u, m) == [auc |-> a, user |-> u, amount |-> m, time |-> now]

\* The handler returns: the request's slot keeps its outcome only.
Finish(r, out) == req' = [req EXCEPT ![r] = [IdleReq EXCEPT !.pc = "done", !.outcome = out]]

\* The handler answers that the bid must exceed thr: the message carries the
\* threshold the handler computed.
AnswerTooLow(r, thr) ==
    req' = [req EXCEPT ![r] = [IdleReq EXCEPT !.pc = "done", !.outcome = "toolow", !.shown = thr]]

Init ==
    /\ deploy \in [server : ServerVariants, bids : BidsVariants]
    /\ now = 0
    /\ auctions \in [Auctions -> [owner : Owners, base_price : BasePrices,
                                  end_time : EndTimes, status : {"active"}]]
    /\ bids = <<>>
    /\ notifs = [k \in NotifKeys |-> 0]
    /\ events = <<>>
    /\ req = [r \in Reqs |-> IdleReq]
    /\ sw = [s \in Sweeps |-> IdleSweep]
    /\ closes = [a \in Auctions |-> 0]
    /\ statusWrites = 0
    /\ conn = [c \in Conns |-> IdleConn]
    /\ nread = [k \in NotifKeys |-> 0]
    /\ gone = {}
    /\ del = IdleDel
    /\ faults = 0
    /\ answered = NoUser
    /\ userRows = <<>>
    /\ reg = [g \in Regs |-> IdleReg]
    /\ tz = IdleClock

\* ---- the clock ----

Tick ==
    /\ now < MaxTime
    /\ now' = now + 1
    /\ UNCHANGED <<admin, deploy, auctions, bids, notifs, events, req, sw, closes, statusWrites>>

\* ---- bid handlers ----

\* Does the handler read the status column?  (bids.js first revision selects
\* end_time and base_price only.)
ReadsStatus(p) == ~(p = "rest" /\ deploy.bids = "rest1")

\* The checks a handler makes from the arrival of the request to the end of the
\* step that reads the auction row: the outcome, or "pass".  The second socket
\* revision rejects a non-positive amount before it reads the store, the second
\* bids.js revision after the closed check.
Validate(p, a, m) ==
    IF p = "socket" /\ SocketVariant = "socket2" /\ (a = Missing \/ m <= 0) THEN "invalid"
    ELSE IF a = Missing \/ a \in gone THEN "notfound"
    ELSE IF ReadsStatus(p) /\ auctions[a].status = "ended" THEN "closed"
    ELSE IF now >= auctions[a].end_time THEN "closed"
    ELSE IF p = "rest" /\ deploy.bids = "rest2" /\ m <= 0 THEN "invalid"
    ELSE "pass"

\* Does the handler keep the amount as the string the client sent?  The first
\* socket revision uses data.bid_amount as it came; the second converts with
\* Number(), the second bids.js revision compares with a number (Math.max) and
\* the first hands the comparison to the store, which compares numerically.
KeepsText(p, txt) == txt /\ p = "socket" /\ SocketVariant = "socket1"

\* A newBid message or a POST /api/bids request arrives and the handler reads
\* the auction row: SELECT ... FROM auctions WHERE id_auctions = ?.  txt: the
\* payload carries bid_amount as a string ("10") instead of a number (10).
BidArrive(r, p, a, u, m, txt) ==
    /\ req[r].pc = "idle"
    /\ \A q \in Reqs : q < r => req[q].pc # "idle"
    /\ Started < MaxOps
    /\ IF Validate(p, a, m) # "pass"
       THEN Finish(r, Validate(p, a, m))
       ELSE req' = [req EXCEPT ![r] = [IdleReq EXCEPT
                        !.pc = IF ReadsStatus(p) THEN "highest" ELSE "cinsert",
                        !.path = p, !.auc = a, !.user = u, !.amount = m,
                        !.text = KeepsText(p, txt),
                        !.base = auctions[a].base_price]]

BidStart(r, p, a, u, m, txt) ==
    /\ BidArrive(r, p, a, u, m, txt)
    /\ UNCHANGED <<admin, deploy, now, auctions, bids, notifs, events, sw, closes, statusWrites>>

\* The threshold a handler computes from the base price it read and the highest row.
HandlerThreshold(r, highest) ==
    IF req[r].path = "socket" /\ SocketVariant = "socket1"
    THEN Threshold1(req[r].base, highest)
    ELSE Threshold2(req[r].base, highest)

\* String(n): the decimal digits of n, as character codes.
RECURSIVE Digits(_)
Digits(n) == IF n < 10 THEN <<48 + n>> ELSE Digits(n \div 10) \o <<48 + (n % 10)>>

\* A DECIMAL(10,2) column as the driver returns it: the string "n.00".
DecimalText(n) == Digits(n) \o <<46, 48, 48>>

\* s < t for two strings: the first differing code unit decides, a proper
\* prefix is smaller.
RECURSIVE StrLess(_, _)
StrLess(s, t) ==
    IF t = <<>> THEN FALSE
    ELSE IF s = <<>> THEN TRUE
    ELSE IF Head(s) # Head(t) THEN Head(s) < Head(t)
    ELSE StrLess(Tail(s), Tail(t))

\* amount <= threshold as the handler evaluates it.  In the first socket
\* revision the right operand is the string of the row; when the amount is a
\* string too, <= compares the two strings, otherwise it compares numbers.
TooLow(r, thr) ==
    IF req[r].text
    THEN ~StrLess(DecimalText(thr), Digits(req[r].amount))
    ELSE req[r].amount <= thr

\* A handler that stores the row before it compares the amount.
BidReadHighestStores(r) ==
    /\ req[r].pc = "highest"
    /\ bids' = Append(bids, NewBid(req[r].auc, req[r].user, req[r].amount))
    /\ LET thr == HandlerThreshold(r, HighestRow(req[r].auc)) IN
       IF TooLow(r, thr)
       THEN Finish(r, "toolow")
       ELSE req' = [req EXCEPT ![r].pc = "emit"]
    /\ UNCHANGED <<admin, deploy, now, auctions, notifs, events, sw, closes, statusWrites>>

\* SELECT bid_amount FROM bids ... ORDER BY bid_amount DESC LIMIT 1, then the
\* threshold check.
BidReadHighest(r) ==
    /\ req[r].pc = "highest"
    /\ LET thr == HandlerThreshold(r, HighestRow(req[r].auc)) IN
       IF TooLow(r, thr)
       THEN AnswerTooLow(r, thr)
       ELSE req' = [req EXCEPT ![r].pc = "insert"]
    /\ UNCHANGED <<admin, deploy, now, auctions, bids, notifs, events, sw, closes, statusWrites>>

\* What the schema does with bids.id_auctions when the auction row is missing
\* or goes away.  The schema is not part of the repository: no foreign key, a
\* foreign key that restricts, or one that cascades.
FkRules == {"none", "restrict", "cascade"}

\* INSERT INTO bids (...) VALUES (?, ?, ?).  The REST handler answers 201 here;
\* the socket handler goes on to one more query before it broadcasts.  When
\* the auction row has been deleted meanwhile, a foreign key makes the insert
\* fail and the handler's catch answers with an error.
BidInsert(r) ==
    /\ req[r].pc = "insert"
    /\ \E fk \in (IF req[r].auc \in gone THEN FkRules ELSE {"none"}) :
           IF fk = "none"
           THEN /\ bids' = Append(bids, NewBid(req[r].auc, req[r].user, req[r].amount))
                /\ IF req[r].path = "rest"
                   THEN Finish(r, "accepted")
                   ELSE req' = [req EXCEPT ![r].pc = "emit"]
           ELSE /\ bids' = bids
                /\ Finish(r, "error")
    /\ UNCHANGED <<admin, deploy, now, auctions, notifs, events, sw, closes, statusWrites>>

\* The predicate of the conditional INSERT ... SELECT of bids.js (first revision).
CondInsertOk(a, m) == a \notin gone /\ now < auctions[a].end_time /\ m > ThresholdSql(a)

\* INSERT INTO bids ... SELECT ... WHERE UTC_TIMESTAMP() < end_time AND ? > GREATEST(...)
\* affectedRows = 0 is answered with one message for too low and for closed.
BidCondInsert(r) ==
    /\ req[r].pc = "cinsert"
    /\ IF CondInsertOk(req[r].auc, req[r].amount)
       THEN /\ bids' = Append(bids, NewBid(req[r].auc, req[r].user, req[r].amount))
            /\ Finish(r, "accepted")
       ELSE /\ bids' = bids
            /\ Finish(r, "invalidbid")
    /\ UNCHANGED <<admin, deploy, now, auctions, notifs, events, sw, closes, statusWrites>>

\* ORDER BY b.bid_amount DESC, b.bid_time ASC LIMIT 1: the rows that may come first.
BestBids(a) ==
    LET top == {i \in BidIdx(a) : bids[i].amount = HighestRow(a)}
    IN  {i \in top : \A j \in top : bids[i].time <= bids[j].time}

\* ORDER BY b.bid_amount DESC LIMIT 1: any row of the highest amount.
TopBids(a) == {i \in BidIdx(a) : bids[i].amount = HighestRow(a)}

UpdateBids(a, m, u) == [type |-> "updateBids", auc |-> a, amount |-> m, user |-> u]

\* The last query of the socket handler and io.emit("updateBids").  The first
\* revision reads the username and sends the amount of the request; the second
\* reads the highest bid again and sends that row.
BidEmit(r) ==
    /\ req[r].pc = "emit"
    /\ IF SocketVariant = "socket1"
       THEN events' = Append(events, UpdateBids(req[r].auc, req[r].amount, req[r].user))
       ELSE \E i \in BestBids(req[r].auc) :
                events' = Append(events, UpdateBids(req[r].auc, bids[i].amount, bids[i].user))
    /\ Finish(r, "accepted")
    /\ UNCHANGED <<admin, deploy, now, auctions, bids, notifs, sw, closes, statusWrites>>

\* A request arrives at a free slot, over either path and with any payload.
NewRequest(r) ==
    /\ req[r].pc = "idle"
    /\ Started < MaxOps
    /\ \E p \in Paths, a \in AuctionIds, u \in Users, m \in Amounts, txt \in BOOLEAN :
           BidStart(r, p, a, u, m, txt)

BidStep(r) ==
    \/ NewRequest(r)
    \/ BidReadHighest(r)
    \/ BidInsert(r)
    \/ BidCondInsert(r)
    \/ BidEmit(r)

\* ---- the live channel: io.use and the connection's messages ----

\* What a client presents in socket.handshake.auth.token.
Creds == {"absent", "valid", "expired", "malformed", "forged"}

\* jwt.verify(token, secret) returns the payload of a well-formed token signed
\* with the secret and not expired, and throws for every other token.
VerifiesLax(cred) == cred \in {"valid", "expired"}

Verifies(cred) == cred = "valid"

\* io.use: the first revision refuses a connection without a token, the
\* second admits it as a visitor; both refuse a token that does not verify.
Admission(cred) ==
    IF cred = "absent"
    THEN IF SocketVariant = "socket1"
         THEN [state |-> "refused", error |-> "missing"]
         ELSE [state |-> "visitor", error |-> ""]
    ELSE IF Verifies(cred)
         THEN [state |-> "user", error |-> ""]
         ELSE [state |-> "refused", error |-> "invalid"]

\* A client connects: the middleware runs once for the connection.
Connect(c, cred) ==
    /\ conn[c].state = "none"
    /\ \A d \in Conns : d < c => conn[d].state # "none"
    /\ conn' = [conn EXCEPT ![c] = [IdleConn EXCEPT !.state = Admission(cred).state,
                                                   !.cred = cred,
                                                   !.error = Admission(cred).error]]
    /\ UNCHANGED <<aux, nread, gone, del, deploy, now, auctions, bids, notifs, events, req, sw,
                   closes, statusWrites>>

\* A newBid message on connection c.  The "connection" event, which registers
\* the newBid listener, fires only for a connection the middleware let pass.
SocketNewBid(c, r, a, u, m, txt) ==
    /\ conn[c].state \in {"user", "visitor"}
    /\ BidArrive(r, "socket", a, u, m, txt)
    /\ conn' = [conn EXCEPT ![c].msgs = @ + 1]
    /\ UNCHANGED <<aux, nread, gone, del, deploy, now, auctions, bids, notifs, events, sw,
                   closes, statusWrites>>

\* ---- a query of a bid handler fails ----

\* The first await of the handler rejects (or the token check throws): the
\* catch block answers errorBid / 500 and nothing was read or written.
BidArriveFails(r) ==
    /\ req[r].pc = "idle"
    /\ \A q \in Reqs : q < r => req[q].pc # "idle"
    /\ Started < MaxOps
    /\ Finish(r, "error")
    /\ UNCHANGED <<admin, deploy, now, auctions, bids, notifs, events, sw, closes, statusWrites>>

\* A later await rejects: the same catch block answers, whatever the handler
\* has done so far.
BidFail(r) ==
    /\ req[r].pc \in {"highest", "insert", "cinsert", "emit"}
    /\ Finish(r, "error")
    /\ UNCHANGED <<admin, deploy, now, auctions, bids, notifs, events, sw, closes, statusWrites>>

\* ---- PUT /api/auctions/:id/status ----

\* Does the revision that handles the call refuse it?  One revision of the
\* route updates for any authenticated user (owned = FALSE), the other
\* answers 403 unless the requester owns the auction (owned = TRUE).
Forbidden(owned, a, u) == owned /\ auctions[a].owner # u

\* UPDATE auctions SET status = ? WHERE id_auctions = ?  with the status of the
\* request body.
StatusUpdate(owned, a, u, st) ==
    /\ statusWrites < MaxStatusWrites
    /\ Started < MaxOps
    /\ statusWrites' = statusWrites + 1
    /\ IF Forbidden(owned, a, u)
       THEN auctions' = auctions
       ELSE auctions' = [auctions EXCEPT ![a].status = st]
    /\ UNCHANGED <<admin, deploy, now, bids, notifs, events, req, sw, closes>>

\* Any authenticated user sends the request, for any auction and status.
StatusRequest ==
    /\ statusWrites < MaxStatusWrites
    /\ Started < MaxOps
    /\ \E owned \in BOOLEAN, a \in Auctions, u \in Users, st \in Statuses :
           StatusUpdate(owned, a, u, st)

\* ---- DELETE /api/auctions/:id ----

EndDel(out) == del' = [IdleDel EXCEPT !.pc = "done", !.outcome = out]

\* SELECT id_users FROM auctions WHERE id_auctions = ?: 404 when there is no
\* row, 403 when the requester is not the owner.
DelStart(a, u) ==
    /\ del.pc = "idle"
    /\ Started < MaxOps
    /\ IF a = Missing \/ a \in gone THEN EndDel("notfound")
       ELSE IF auctions[a].owner # u THEN EndDel("forbidden")
       ELSE del' = [IdleDel EXCEPT !.pc = "count", !.auc = a]
    /\ UNCHANGED <<aux, conn, nread, gone, deploy, now, auctions, bids, notifs, events, req, sw,
                   closes, statusWrites>>

\* SELECT COUNT(*) as count FROM bids WHERE id_auctions = ?: 400 when count > 0.
DelCount ==
    /\ del.pc = "count"
    /\ IF BidIdx(del.auc) # {} THEN EndDel("hasbids")
       ELSE del' = [del EXCEPT !.pc = "delete"]
    /\ UNCHANGED <<aux, conn, nread, gone, deploy, now, auctions, bids, notifs, events, req, sw,
                   closes, statusWrites>>

\* The bids table without the rows of auction a.
WithoutBidsOf(a) == SelectSeq(bids, LAMBDA b : b.auc # a)

\* DELETE FROM auctions WHERE id_auctions = ?
DelDelete ==
    /\ del.pc = "delete"
    /\ \E fk \in FkRules :
           IF fk = "restrict" /\ BidIdx(del.auc) # {}
           THEN /\ EndDel("error")
                /\ UNCHANGED <<gone, bids>>
           ELSE /\ EndDel("deleted")
                /\ gone' = gone \cup {del.auc}
                /\ bids' = IF fk = "cascade" THEN WithoutBidsOf(del.auc) ELSE bids
    /\ UNCHANGED <<aux, conn, nread, deploy, now, auctions, notifs, events, req, sw,
                   closes, statusWrites>>

DelStep ==
    \/ del.pc = "idle" /\ Started < MaxOps /\ \E a \in AuctionIds, u \in Users : DelStart(a, u)
    \/ DelCount
    \/ DelDelete

\* ---- /api/notifications ----

\* The row a request names by :id: a row of key k that is read (rd) or unread,
\* or no row at all.  Rows of one key and one flag differ in their id only.
NoRow == <<>>
RowRefs == (NotifKeys \X BOOLEAN) \cup {NoRow}

RowExists(ref) ==
    /\ ref # NoRow
    /\ IF ref[2] THEN nread[ref[1]] > 0 ELSE notifs[ref[1]] - nread[ref[1]] > 0

\* ... AND id_user = ?  (a NULL id_user equals no user)
OwnsAny(u, k) == TRUE

Owns(u, k) == k[2] = u

\* PUT /:id/read: UPDATE notifications SET is_read = 1 WHERE id_notification = ? AND id_user = ?
MarkRead(u, ref) ==
    /\ IF RowExists(ref) /\ Owns(u, ref[1]) /\ ~ref[2]
       THEN nread' = [nread EXCEPT ![ref[1]] = @ + 1]
       ELSE nread' = nread
    /\ UNCHANGED <<aux, conn, gone, del, deploy, now, auctions, bids, notifs, events, req, sw,
                   closes, statusWrites>>

\* DELETE /:id: DELETE FROM notifications WHERE id_notification = ? AND id_user = ?
DeleteNotif(u, ref) ==
    /\ IF RowExists(ref) /\ Owns(u, ref[1])
       THEN /\ notifs' = [notifs EXCEPT ![ref[1]] = @ - 1]
            /\ nread' = [nread EXCEPT ![ref[1]] = IF ref[2] THEN @ - 1 ELSE @]
       ELSE UNCHANGED <<notifs, nread>>
    /\ UNCHANGED <<aux, conn, gone, del, deploy, now, auctions, bids, events, req, sw,
                   closes, statusWrites>>

\* PUT /mark-all-read: UPDATE notifications SET is_read = 1 WHERE id_user = ? AND is_read = 0
MarkAllRead(u) ==
    /\ nread' = [k \in NotifKeys |-> IF Owns(u, k) THEN notifs[k] ELSE nread[k]]
    /\ UNCHANGED <<aux, conn, gone, del, deploy, now, auctions, bids, notifs, events, req, sw,
                   closes, statusWrites>>

\* DELETE /clear-read.  router.delete("/:id") is registered before
\* router.delete("/clear-read") and matches the path with id = "clear-read":
\* the request runs the delete-by-id statement, whose id names no row.
ClearRead(u) == DeleteNotif(u, NoRow)

\* ---- the sweep ----

AuctionEnded(a, m, u) == [type |-> "auctionEnded", auc |-> a, amount |-> m, user |-> u]

\* The winner row a sweep holds (0: the winner query returned no row).
EndedEvent(a, w) ==
    IF w = 0 THEN AuctionEnded(a, 0, NoUser) ELSE AuctionEnded(a, bids[w].amount, bids[w].user)

\* Is auction a in the result of the sweep's selection?
\*   server1: status = 'active' AND end_time < NOW() AND TIMESTAMPDIFF(SECOND, end_time, NOW()) >= 1
\*   server2: status = 'active' AND end_time <= NOW()
\*   part004: status = 'active' AND end_time < NOW()
\*   part005: status = 'active' AND end_time <= ? (DateTime.utc() taken when the tick fired)
DueAnyStatus(a, t0) ==
    /\ a \notin gone
    /\ CASE deploy.server = "server1" -> now - auctions[a].end_time >= MinPastEnd
         [] deploy.server = "server2" -> auctions[a].end_time <= now
         [] deploy.server = "part004" -> auctions[a].end_time < now
         [] OTHER -> auctions[a].end_time <= t0

Due(a, t0) ==
    /\ a \notin gone
    /\ auctions[a].status = "active"
    /\ CASE deploy.server = "server1" -> now - auctions[a].end_time >= MinPastEnd
         [] deploy.server = "server2" -> auctions[a].end_time <= now
         [] deploy.server = "part004" -> auctions[a].end_time < now
         [] OTHER -> auctions[a].end_time <= t0

\* The selected ids in the order of the result (ORDER BY end_time ASC; ids break ties here).
RECURSIVE SortedDue(_, _)
SortedDue(S, t0) ==
    IF S = {} THEN <<>>
    ELSE LET a == CHOOSE x \in S : \A y \in S :
                      \/ auctions[x].end_time < auctions[y].end_time
                      \/ auctions[x].end_time = auctions[y].end_time /\ x <= y
         IN  <<a>> \o SortedDue(S \ {a}, t0)

\* server2 only: const timeDiff = serverTime - new Date(end_time); if (timeDiff < 0) continue;
RECURSIVE SkipEarly(_, _)
SkipEarly(rows, t0) ==
    IF rows = <<>> THEN rows
    ELSE IF deploy.server = "server2" /\ t0 < auctions[Head(rows)].end_time
         THEN SkipEarly(Tail(rows), t0)
         ELSE rows

FirstPc == IF deploy.server = "part005" THEN "update" ELSE "recent"

\* The sweep record once the for loop goes to rows (the next auction, or the end).
Loop(t0, rows) ==
    LET rest == SkipEarly(rows, t0) IN
    IF rest = <<>> THEN [IdleSweep EXCEPT !.pc = "done"]
    ELSE [IdleSweep EXCEPT !.pc = FirstPc, !.serverTime = t0, !.rows = rest]

Continue(s) == Loop(sw[s].serverTime, Tail(sw[s].rows))

\* The rows of the selection, as the for loop meets them.
Selected(t0) == Loop(t0, SortedDue({a \in DOMAIN auctions : Due(a, t0)}, t0))

TakesTime == deploy.server \in {"server2", "part005"}

\* The timer fires.  server2 first reads SELECT NOW() into serverTime and
\* part005 takes DateTime.utc(); both select in the next step.  server1 and
\* part004 never use the result of their SELECT NOW(6): their first step that
\* reads the store's state is the selection.
SweepStart(s) ==
    /\ sw[s].pc = "idle"
    /\ \A q \in Sweeps : q < s => sw[q].pc # "idle"
    /\ Started < MaxOps
    /\ IF TakesTime
       THEN sw' = [sw EXCEPT ![s] = [IdleSweep EXCEPT !.pc = "select", !.serverTime = now]]
       ELSE sw' = [sw EXCEPT ![s] = Selected(0)]
    /\ UNCHANGED <<admin, deploy, now, auctions, bids, notifs, events, req, closes, statusWrites>>

\* The selection of the active auctions whose end_time has passed.
SweepSelect(s) ==
    /\ sw[s].pc = "select"
    /\ sw' = [sw EXCEPT ![s] = Selected(sw[s].serverTime)]
    /\ UNCHANGED <<admin, deploy, now, auctions, bids, notifs, events, req, closes, statusWrites>>

\* SELECT MAX(bid_time) FROM bids WHERE id_auctions = ?  (-1: NULL)
LastBidTime(a) == IF BidIdx(a) = {} THEN -1 ELSE SeqMax({bids[i].time : i \in BidIdx(a)})

\* A deferral that looks at no age: any bid (server2), any bid after end_time
\* (server1, part004) keeps the auction open.
DeferredAlways(a, t0) ==
    /\ LastBidTime(a) >= 0
    /\ (deploy.server = "server2" \/ LastBidTime(a) > auctions[a].end_time)

\* Does the sweep leave the auction for a later cycle?
\*   server1, part004: the last bid came after end_time and is younger than 5 s
\*   server2: the last bid is younger than 3 s, measured from serverTime
Deferred(a, t0) ==
    /\ LastBidTime(a) >= 0
    /\ IF deploy.server = "server2"
       THEN t0 - LastBidTime(a) < RecentBidSeconds
       ELSE LastBidTime(a) > auctions[a].end_time /\ now - LastBidTime(a) < GraceSeconds

SweepRecent(s) ==
    /\ sw[s].pc = "recent"
    /\ IF Deferred(Head(sw[s].rows), sw[s].serverTime)
       THEN sw' = [sw EXCEPT ![s] = Continue(s)]
       ELSE sw' = [sw EXCEPT ![s].pc = IF deploy.server = "server1" THEN "update" ELSE "winner"]
    /\ UNCHANGED <<admin, deploy, now, auctions, bids, notifs, events, req, closes, statusWrites>>

\* The rows the winner query may return first: part005 orders by amount only.
WinnerRows(a) == IF deploy.server = "part005" THEN TopBids(a) ELSE BestBids(a)

NotifyPc(w) == IF w = 0 THEN "notifyNone" ELSE "notifyWinner"

\* The winner query (ORDER BY bid_amount DESC [, bid_time ASC] LIMIT 1).
SweepWinner(s) ==
    /\ sw[s].pc = "winner"
    /\ \E w \in (IF WinnerRows(Head(sw[s].rows)) = {} THEN {0} ELSE WinnerRows(Head(sw[s].rows))) :
           sw' = [sw EXCEPT ![s].winner = w,
                            ![s].pc = IF deploy.server \in {"server1", "part005"}
                                      THEN NotifyPc(w) ELSE "update"]
    /\ UNCHANGED <<admin, deploy, now, auctions, bids, notifs, events, req, closes, statusWrites>>

\* UPDATE auctions SET status = 'ended' WHERE id_auctions = ?  In server2 and
\* part004 the winner is known by now and auctionEnded is emitted right after.
SweepUpdate(s) ==
    /\ sw[s].pc = "update"
    /\ LET a == Head(sw[s].rows) IN
       /\ auctions' = [auctions EXCEPT ![a].status = "ended"]
       /\ closes' = [closes EXCEPT ![a] = @ + 1]
       /\ IF deploy.server \in {"server1", "part005"}
          THEN /\ sw' = [sw EXCEPT ![s].pc = "winner"]
               /\ events' = events
          ELSE /\ sw' = [sw EXCEPT ![s].pc = NotifyPc(sw[s].winner)]
               /\ events' = Append(events, EndedEvent(a, sw[s].winner))
    /\ UNCHANGED <<admin, deploy, now, bids, notifs, req, statusWrites>>

\* server2 and part004 insert a result notification only WHERE NOT EXISTS one of
\* the same auction, user and message prefix; server1 and part005 always insert.
Guarded == deploy.server \in {"server2", "part004"}

InsertNotif(k) ==
    IF Guarded /\ notifs[k] > 0 THEN notifs ELSE [notifs EXCEPT ![k] = @ + 1]

\* server1 and part005 emit auctionEnded after the last notification insert.
EmitAfterNotify(s) ==
    IF Guarded THEN events' = events
    ELSE events' = Append(events, EndedEvent(Head(sw[s].rows), sw[s].winner))

SweepNotifyWinner(s) ==
    /\ sw[s].pc = "notifyWinner"
    /\ notifs' = InsertNotif(<<Head(sw[s].rows), bids[sw[s].winner].user, "winner">>)
    /\ sw' = [sw EXCEPT ![s].pc = "others"]
    /\ UNCHANGED <<admin, deploy, now, auctions, bids, events, req, closes, statusWrites>>

\* SELECT DISTINCT the users who bid on the auction, the winner excepted.
OtherBidders(a, w) == {bids[i].user : i \in BidIdx(a)} \ {bids[w].user}

SweepOthers(s) ==
    /\ sw[s].pc = "others"
    /\ LET o == OtherBidders(Head(sw[s].rows), sw[s].winner) IN
       IF o = {}
       THEN /\ EmitAfterNotify(s)
            /\ sw' = [sw EXCEPT ![s] = Continue(s)]
       ELSE /\ events' = events
            /\ sw' = [sw EXCEPT ![s].pc = "notifyLoser", ![s].others = o]
    /\ UNCHANGED <<admin, deploy, now, auctions, bids, notifs, req, closes, statusWrites>>

SweepNotifyLoser(s) ==
    /\ sw[s].pc = "notifyLoser"
    /\ LET u == CHOOSE x \in sw[s].others : \A y \in sw[s].others : x <= y IN
       /\ notifs' = InsertNotif(<<Head(sw[s].rows), u, "loser">>)
       /\ IF sw[s].others = {u}
          THEN /\ EmitAfterNotify(s)
               /\ sw' = [sw EXCEPT ![s] = Continue(s)]
          ELSE /\ events' = events
               /\ sw' = [sw EXCEPT ![s].others = @ \ {u}]
    /\ UNCHANGED <<admin, deploy, now, auctions, bids, req, closes, statusWrites>>

\* The no-bids notification goes to the auction's owner (server1, part005) or
\* to no user (server2, part004).
NoBidsUser(a) == IF Guarded THEN NoUser ELSE auctions[a].owner

SweepNotifyNone(s) ==
    /\ sw[s].pc = "notifyNone"
    /\ notifs' = InsertNotif(<<Head(sw[s].rows), NoBidsUser(Head(sw[s].rows)), "nobids">>)
    /\ EmitAfterNotify(s)
    /\ sw' = [sw EXCEPT ![s] = Continue(s)]
    /\ UNCHANGED <<admin, deploy, now, auctions, bids, req, closes, statusWrites>>

SweepStep(s) ==
    \/ SweepStart(s)
    \/ SweepSelect(s)
    \/ SweepRecent(s)
    \/ SweepWinner(s)
    \/ SweepUpdate(s)
    \/ SweepNotifyWinner(s)
    \/ SweepOthers(s)
    \/ SweepNotifyLoser(s)
    \/ SweepNotifyNone(s)

Next ==
    \/ Tick
    \/ \E r \in Reqs : BidStep(r)
    \/ \E s \in Sweeps : SweepStep(s)
    \/ StatusRequest

Spec == Init /\ [][Next]_vars

\* ---- properties ----

\* The bid an insert step appends.
Inserted == Len(bids') = Len(bids) + 1
LastBid == bids'[Len(bids')]

\* C1 (monotonic close): once an auction's status is 'ended', no step of any
\* operation (bid handlers, sweep, status-update route) makes it 'active' again.
C1_MonotonicClose ==
    [][\A a \in Auctions : auctions[a].status = "ended" => auctions'[a].status = "ended"]_vars

\* C2 (no double-accept): read-highest, validate, insert behaves as under a lock
\* on the auction: every bid is inserted in a state whose threshold it exceeds,
\* so a bid that passed validation before a concurrent bid was stored is not
\* stored as well unless it also passes against the state the other one left.
C2_NoDoubleAccept ==
    [][Inserted => LastBid.amount > ThresholdSql(LastBid.auc)]_vars

\* The bids of auction a stored before row i.
Earlier(i) == {j \in 1..(i - 1) : bids[j].auc = bids[i].auc}

\* C3 (bid strictness): every stored bid exceeds the base price of its auction
\* and every bid stored before it on that auction, so the amounts of an auction
\* strictly increase in insertion order.
C3_BidStrictness ==
    \A i \in 1..Len(bids) :
        /\ bids[i].amount > auctions[bids[i].auc].base_price
        /\ \A j \in Earlier(i) : bids[i].amount > bids[j].amount

\* C4 (no acceptance after close): once a sweep has committed status 'ended'
\* for an auction, no bid row is inserted for that auction.
C4_NoAcceptAfterClose ==
    [][Inserted => closes[LastBid.auc] = 0]_vars

\* The auctionEnded events emitted for auction a.
EndedEvents(a) == {i \in 1..Len(events) : events[i].type = "auctionEnded" /\ events[i].auc = a}

\* The winner notifications created for auction a.
RECURSIVE SumOver(_, _, _)
SumOver(a, cat, U) ==
    IF U = {} THEN 0
    ELSE LET u == CHOOSE x \in U : TRUE IN notifs[<<a, u, cat>>] + SumOver(a, cat, U \ {u})

WinnerNotifs(a) == SumOver(a, "winner", Users \cup {NoUser})

SweepsQuiet == \A s \in Sweeps : sw[s].pc \in {"idle", "done"}

\* C5 (single winner): when the sweep has closed an auction that has stored bids
\* (and no sweep execution is in flight), one bid is designated winner: every
\* auctionEnded event of the auction and its one winner notification name the
\* bid of the highest amount among all bids stored for it, the earliest on a tie.
C5_SingleWinner ==
    \A a \in Auctions :
        (closes[a] > 0 /\ SweepsQuiet /\ BidIdx(a) # {}) =>
            \E i \in BestBids(a) :
                /\ EndedEvents(a) # {}
                /\ \A e \in EndedEvents(a) :
                       events[e].user = bids[i].user /\ events[e].amount = bids[i].amount
                /\ WinnerNotifs(a) = 1
                /\ notifs[<<a, bids[i].user, "winner">>] = 1

\* C6 (notification uniqueness): for each auction, recipient and category there
\* is at most one result notification row.
C6_NotificationUnique == \A k \in NotifKeys : notifs[k] <= 1

\* C7 (overlapping sweeps close once): a status update of the sweep that finds
\* the row already set to 'ended' by a sweep makes the execution skip the auction
\* (it computes no winner, inserts no notification, emits nothing), and at most one
\* auctionEnded event is emitted per auction.
C7_UpdateIsGate ==
    [][/\ \A s \in Sweeps :
              (sw[s].pc = "update" /\ sw'[s] # sw[s]
                  /\ closes[Head(sw[s].rows)] > 0
                  /\ auctions[Head(sw[s].rows)].status = "ended") => sw'[s] = Continue(s)
       /\ \A a \in Auctions : Cardinality(EndedEvents(a)') <= 1]_vars

\* ---- two sweeps back to back over the same data ----

\* Bid rows the handlers can have stored by the instant t: each above the base
\* price of its auction, stamped no later than t.
BidRows(t) ==
    {b \in [auc : Auctions, user : Users, amount : Amounts, time : 0..t] :
        \E bp \in BasePrices : b.amount > bp}

BidTables(t) ==
    {<<>>} \cup {<<b>> : b \in BidRows(t)} \cup {<<b, c>> : b \in BidRows(t), c \in BidRows(t)}

InitTwice ==
    /\ deploy \in [server : ServerVariants, bids : BidsVariants]
    /\ now \in Times
    /\ auctions \in [Auctions -> [owner : Owners, base_price : BasePrices,
                                  end_time : EndTimes, status : {"active"}]]
    /\ bids \in BidTables(now)
    /\ notifs = [k \in NotifKeys |-> 0]
    /\ events = <<>>
    /\ req = [r \in Reqs |-> IdleReq]
    /\ sw = [s \in Sweeps |-> IdleSweep]
    /\ closes = [a \in Auctions |-> 0]
    /\ statusWrites = 0
    /\ conn = [c \in Conns |-> IdleConn]
    /\ nread = [k \in NotifKeys |-> 0]
    /\ gone = {}
    /\ del = IdleDel
    /\ faults = 0
    /\ answered = NoUser
    /\ userRows = <<>>
    /\ reg = [g \in Regs |-> IdleReg]
    /\ tz = IdleClock

\* An execution takes a step only while no other execution is in flight.
Alone(s) == \A q \in Sweeps \ {s} : sw[q].pc \in {"idle", "done"}

NextTwice ==
    \E s \in Sweeps :
        \/ Alone(s) /\ SweepStart(s)
        \/ Alone(s) /\ SweepSelect(s)
        \/ Alone(s) /\ SweepRecent(s)
        \/ Alone(s) /\ SweepWinner(s)
        \/ Alone(s) /\ SweepUpdate(s)
        \/ Alone(s) /\ SweepNotifyWinner(s)
        \/ Alone(s) /\ SweepOthers(s)
        \/ Alone(s) /\ SweepNotifyLoser(s)
        \/ Alone(s) /\ SweepNotifyNone(s)

SpecTwice == InitTwice /\ [][NextTwice]_vars

\* C8 (idempotent sweep): once one execution of the sweep has finished, an
\* execution that starts right after it (same instant, same rows) changes
\* nothing: no status update, no notification row, no auctionEnded event.
C8_IdempotentSweep ==
    [][(\E s \in Sweeps : sw[s].pc = "done") =>
          /\ auctions' = auctions
          /\ closes' = closes
          /\ notifs' = notifs
          /\ events' = events
          /\ bids' = bids]_vars

\* C8: the first execution closed an auction with a winner and a loser, and
\* the second has run to its end.
C8_RanTwice ==
    /\ \A s \in 1..2 : sw[s].pc = "done"
    /\ \E a \in Auctions, u \in Users :
           closes[a] = 1 /\ WinnerNotifs(a) = 1 /\ notifs[<<a, u, "loser">>] = 1

\* The auction a request that is past the auction check bids on is open.
Open(a) == auctions[a].status = "active" /\ now < auctions[a].end_time

\* C9 (closed-auction rejection): a bid request that arrives when the auction's
\* status is 'ended' or the instant is at or after end_time does not pass the
\* auction check, on the socket path and on the REST path alike.
C9_ClosedRejected ==
    [][\A r \in Reqs :
          (req[r].pc = "idle" /\ req'[r].pc \notin {"idle", "done"}) => Open(req'[r].auc)]_vars

\* C10 (threshold rule): a request whose amount is less than or equal to
\* max(base_price, highest stored bid of the auction) when the handler reads the
\* highest bid (or runs the conditional insert) is rejected there, and the bids
\* table stays as it was.
C10_ThresholdRule ==
    [][\A r \in Reqs :
          (req[r].pc \in {"highest", "cinsert"} /\ req'[r] # req[r]
              /\ req[r].amount <= ThresholdSql(req[r].auc)) =>
                 /\ req'[r].pc = "done"
                 /\ req'[r].outcome \in {"toolow", "invalidbid"}
                 /\ bids' = bids]_vars

\* C11 (invalid amount): a request whose amount is not positive does not get
\* past the handler's first checks: it is rejected there (as an invalid amount,
\* or for a reason that comes earlier), on the socket and on the REST path.
C11_InvalidRejected ==
    [][\A r \in Reqs :
          (req[r].pc = "idle" /\ req'[r].pc \notin {"idle", "done"}) => req'[r].amount > 0]_vars

\* The reasons a validator rejects with.
Rejections == {"notfound", "closed", "invalid", "toolow", "invalidbid"}

\* The step in which request r ends with outcome in S.
EndsWith(r, S) == req[r].pc # "done" /\ req'[r].pc = "done" /\ req'[r].outcome \in S

\* C12 (no partial write on rejection): the step that ends a request in a
\* validator rejection leaves bids, auctions and notifications as they were and
\* emits nothing, and the request had not reached its insert before.
C12_RejectionWritesNothing ==
    [][\A r \in Reqs :
          EndsWith(r, Rejections) =>
              /\ req[r].pc \in {"idle", "highest", "cinsert"}
              /\ bids' = bids
              /\ auctions' = auctions
              /\ notifs' = notifs
              /\ events' = events]_vars

\* C12: a request was rejected as too low on an auction that holds a bid.
C12_RejectedWithBids ==
    /\ Len(bids) >= 1
    /\ \E r \in Reqs : req[r].pc = "done" /\ req[r].outcome = "toolow"

\* C13 (broadcast on accept): the handler of every accepted bid, socket or
\* REST, emits an updateBids event for the bid's auction before it answers.
C13_BroadcastOnAccept ==
    [][\A r \in Reqs :
          EndsWith(r, {"accepted"}) =>
              /\ Len(events') = Len(events) + 1
              /\ events'[Len(events')].type = "updateBids"]_vars

\* The users who bid on auction a.
Bidders(a) == {bids[i].user : i \in BidIdx(a)}

\* The bids of auction a were all stored while it was open.
BidsInTime(a) == \A i \in BidIdx(a) : bids[i].time < auctions[a].end_time

\* C15 (winner and loser notifications): when the sweep has closed an auction
\* that has bids, all stored before its end_time (and no execution is in
\* flight), the user of a highest bid has
\* exactly one winner notification and no loser notification, nobody else has a
\* winner notification, every other user who bid has exactly one loser
\* notification, and users who did not bid have none.
C15_WinnerAndLosers ==
    \A a \in Auctions :
        (closes[a] > 0 /\ SweepsQuiet /\ BidIdx(a) # {} /\ BidsInTime(a)) =>
            \E i \in TopBids(a) :
                /\ notifs[<<a, bids[i].user, "winner">>] = 1
                /\ WinnerNotifs(a) = 1
                /\ notifs[<<a, bids[i].user, "loser">>] = 0
                /\ \A u \in Bidders(a) \ {bids[i].user} : notifs[<<a, u, "loser">>] = 1
                /\ \A u \in (Users \cup {NoUser}) \ Bidders(a) : notifs[<<a, u, "loser">>] = 0

\* C16 (no-bids close): when the sweep has closed an auction that has no bids
\* (and no execution is in flight), the auction is 'ended', there is exactly
\* one no-bids notification, addressed to no user or to the owner, and the
\* auctionEnded events of the auction carry no winner and no amount.
C16_NoBidsClose ==
    \A a \in Auctions :
        (closes[a] > 0 /\ SweepsQuiet /\ BidIdx(a) = {} /\ statusWrites = 0) =>
            /\ auctions[a].status = "ended"
            /\ SumOver(a, "nobids", Users \cup {NoUser}) = 1
            /\ notifs[<<a, NoUser, "nobids">>] + notifs[<<a, auctions[a].owner, "nobids">>] = 1
            /\ EndedEvents(a) # {}
            /\ \A e \in EndedEvents(a) : events[e].user = NoUser /\ events[e].amount = 0

\* C20 (rejection carries the threshold): a request rejected because its
\* amount does not exceed max(base_price, highest stored bid) is answered with
\* that number, on the socket path and on the REST path.
C20_ThresholdShown ==
    [][\A r \in Reqs :
          (EndsWith(r, {"toolow", "invalidbid"}) /\ req[r].amount <= ThresholdSql(req[r].auc)) =>
              req'[r].shown = ThresholdSql(req[r].auc)]_vars

\* C21 (status writes restricted): the only steps that change an auction's
\* status are the sweep's UPDATE; a status-update request, from the owner or
\* from anybody else, leaves the row as it was.
C21_OnlySweepWritesStatus ==
    [][\A a \in Auctions :
          auctions'[a].status # auctions[a].status => closes'[a] = closes[a] + 1]_vars

\* C22 (no lost bid at the deadline): no bid is stored for an ended auction
\* with an amount greater than the amount an auctionEnded event of that auction
\* announced for the winner.
C22_NoLostBid ==
    \A a \in Auctions : \A e \in EndedEvents(a) : \A i \in BidIdx(a) :
        auctions[a].status = "ended" => bids[i].amount <= events[e].amount

\* The bids of auction a stored at or after its end_time that are younger than
\* the grace window.
InGrace(a) ==
    {i \in BidIdx(a) : bids[i].time >= auctions[a].end_time /\ now - bids[i].time < GraceSeconds}

\* C23 (grace deferral): the sweep does not commit 'ended' for an auction while
\* a bid of it exists with bid_time >= end_time that is younger than the grace
\* window.
C23_GraceDeferral ==
    [][\A a \in Auctions : closes'[a] # closes[a] => InGrace(a) = {}]_vars

\* C24 (late bid inside the grace window): a request that arrives one second
\* after end_time while the auction is still 'active', with an amount above the
\* threshold, is not rejected by the auction check.
C24_LateBidAccepted ==
    [][\A r \in Reqs, p \in Paths, a \in Auctions, u \in Users, m \in Amounts, txt \in BOOLEAN :
          (/\ BidStart(r, p, a, u, m, txt)
           /\ a \notin gone
           /\ auctions[a].status = "active"
           /\ now = auctions[a].end_time + 1
           /\ m > ThresholdSql(a)) => req'[r].pc # "done"]_vars

\* C25 (stored bids precede the deadline): every stored bid was inserted at an
\* instant strictly before the end_time of its auction.
C25_StoredBeforeDeadline ==
    \A i \in 1..Len(bids) : bids[i].time < auctions[bids[i].auc].end_time

\* C30 (decision order): a request rejected as closed is for an auction that
\* exists, and a request rejected for its amount is for an auction that exists
\* and is open: not-found is decided before closed, closed before the amount.
C30_DecisionOrder ==
    [][\A r \in Reqs, p \in Paths, a \in AuctionIds, u \in Users, m \in Amounts, txt \in BOOLEAN :
          (BidStart(r, p, a, u, m, txt) /\ req'[r].pc = "done") =>
              /\ req'[r].outcome = "closed" => (a # Missing /\ a \notin gone)
              /\ req'[r].outcome = "invalid" => (a # Missing /\ a \notin gone /\ Open(a))]_vars

\* ---- bidding and the delete route ----

NextDelete ==
    \/ Tick
    \/ \E r \in Reqs : BidStep(r)
    \/ DelStep

SpecDelete == Init /\ [][NextDelete]_vars

\* C18 (auction with bids is never deleted): the delete operation removes no
\* auction for which a bid is stored, and every stored bid refers to an auction
\* that still exists, also when a bid handler runs between the operation's
\* count of the bids and its DELETE.
C18_NoDeleteWithBids ==
    [][/\ \A a \in Auctions : (a \notin gone /\ a \in gone') => BidIdx(a) = {}
       /\ \A i \in 1..Len(bids') : bids'[i].auc \notin gone']_vars

\* ---- bidding over a store that can fail ----

NextFaults ==
    \/ Tick
    \/ \E r \in Reqs : BidStep(r)
    \/ \E r \in Reqs : BidArriveFails(r)
    \/ \E r \in Reqs : BidFail(r)

SpecFaults == Init /\ [][NextFaults]_vars

\* What a finished request was answered.
Outcomes == Rejections \cup {"accepted", "error"}

\* C14 (exactly one outcome): a request ends with one outcome, an acceptance
\* with its bid stored or a rejection or error with nothing stored: a request
\* that has inserted its bid is not answered with a rejection or an error.
C14_OneOutcome ==
    [][\A r \in Reqs :
          /\ EndsWith(r, Outcomes) => req'[r].outcome # "none"
          /\ (req[r].pc = "emit" /\ req'[r].pc = "done") => req'[r].outcome = "accepted"]_vars

\* ---- connections and the bids sent over them ----

NextChannel ==
    \/ \E c \in Conns, cred \in Creds : Connect(c, cred)
    \/ \E c \in Conns, r \in Reqs :
           /\ conn[c].state \in {"user", "visitor"}
           /\ req[r].pc = "idle"
           /\ \E a \in AuctionIds, u \in Users, m \in Amounts, txt \in BOOLEAN :
                  SocketNewBid(c, r, a, u, m, txt)
    \/ \E r \in Reqs : BidReadHighest(r)
    \/ \E r \in Reqs : BidInsert(r)
    \/ \E r \in Reqs : BidEmit(r)

SpecChannel == Init /\ [][NextChannel]_vars

\* Credentials that are present and do not pass verification.
BadCreds == {"expired", "malformed", "forged"}

\* C17 (live-channel admission): a connection attempt with an expired,
\* malformed or wrongly signed credential is refused with an error, and no
\* newBid message of that connection is processed.
C17_BadCredentialRefused ==
    \A c \in Conns :
        conn[c].cred \in BadCreds =>
            conn[c].state = "refused" /\ conn[c].error = "invalid" /\ conn[c].msgs = 0

\* C17: an expired credential was refused while another connection had a
\* newBid processed.
C17_RefusedAndServed ==
    \E c \in Conns, d \in Conns :
        /\ conn[c].cred = "expired" /\ conn[c].state = "refused"
        /\ conn[d].msgs > 0

\* ---- users working on their notifications ----

\* The notifications the sweeps have left: at most one row per auction,
\* recipient and category, all unread.
InitNotif ==
    /\ deploy \in [server : ServerVariants, bids : BidsVariants]
    /\ now = 0
    /\ auctions \in [Auctions -> [owner : Owners, base_price : BasePrices,
                                  end_time : EndTimes, status : {"ended"}]]
    /\ bids = <<>>
    /\ notifs \in [NotifKeys -> 0..1]
    /\ events = <<>>
    /\ req = [r \in Reqs |-> IdleReq]
    /\ sw = [s \in Sweeps |-> IdleSweep]
    /\ closes = [a \in Auctions |-> 0]
    /\ statusWrites = 0
    /\ conn = [c \in Conns |-> IdleConn]
    /\ nread = [k \in NotifKeys |-> 0]
    /\ gone = {}
    /\ del = IdleDel
    /\ faults = 0
    /\ answered = NoUser
    /\ userRows = <<>>
    /\ reg = [g \in Regs |-> IdleReg]
    /\ tz = IdleClock

NextNotif ==
    \/ \E u \in Users, ref \in RowRefs : MarkRead(u, ref)
    \/ \E u \in Users, ref \in RowRefs : DeleteNotif(u, ref)
    \/ \E u \in Users : MarkAllRead(u)
    \/ \E u \in Users : ClearRead(u)

SpecNotif == InitNotif /\ [][NextNotif]_vars

\* The rows that are not addressed to user u are as they were.
OthersKept(u) ==
    \A k \in NotifKeys : k[2] # u => notifs'[k] = notifs[k] /\ nread'[k] = nread[k]

\* C19 (notification ownership): a mark-read, mark-all-read, delete or
\* clear-read request of user u changes only rows addressed to u; the rows of
\* other users and the rows addressed to no user are unchanged.
C19_OwnRowsOnly ==
    [][\A u \in Users :
          (\/ \E ref \in RowRefs : MarkRead(u, ref)
           \/ \E ref \in RowRefs : DeleteNotif(u, ref)
           \/ MarkAllRead(u)
           \/ ClearRead(u)) => OthersKept(u)]_vars

\* C19: user 1 has read one of their rows and deleted another while a row of
\* user 2 and a row addressed to no user are still there, unread.
C19_OneUserActed ==
    \E a \in Auctions :
        /\ nread[<<a, 1, "winner">>] = 1
        /\ notifs[<<a, 1, "loser">>] = 0
        /\ notifs[<<a, 2, "loser">>] = 1 /\ nread[<<a, 2, "loser">>] = 0
        /\ notifs[<<a, NoUser, "nobids">>] = 1 /\ nread[<<a, NoUser, "nobids">>] = 0

\* ---- store failures in the sweep ----

NumCycleAuctions == 2
MaxFaults == 1

CycleAuctions == 1..NumCycleAuctions

\* A query of the sweep is rejected by the store: the one try block of the
\* timer callback ends in its catch, which logs the error, and the callback
\* returns with the for loop abandoned where it stood.
SweepFail(s) ==
    /\ sw[s].pc \notin {"idle", "done"}
    /\ faults < MaxFaults
    /\ faults' = faults + 1
    /\ sw' = [sw EXCEPT ![s] = [IdleSweep EXCEPT !.pc = "done"]]
    /\ UNCHANGED <<conn, nread, gone, del, tz, answered, accounts, deploy, now, auctions, bids, notifs,
                   events, req, closes, statusWrites>>

\* Bids stored while the auctions were open.
CycleRows ==
    {b \in [auc : CycleAuctions, user : Users, amount : Amounts, time : {0}] :
        \E bp \in BasePrices : b.amount > bp}

CycleTables ==
    {<<>>} \cup {<<b>> : b \in CycleRows} \cup {<<b, c>> : b \in CycleRows, c \in CycleRows}

\* Several auctions with the same end_time, so that one cycle selects them all.
InitCycle ==
    /\ deploy \in [server : ServerVariants, bids : BidsVariants]
    /\ now \in Times
    /\ auctions \in [CycleAuctions -> [owner : Owners, base_price : BasePrices,
                                       end_time : EndTimes, status : {"active"}]]
    /\ bids \in CycleTables
    /\ notifs = [k \in CycleAuctions \X (Users \cup {NoUser}) \X {"winner", "loser", "nobids"} |-> 0]
    /\ events = <<>>
    /\ req = [r \in Reqs |-> IdleReq]
    /\ sw = [s \in Sweeps |-> IdleSweep]
    /\ closes = [a \in CycleAuctions |-> 0]
    /\ statusWrites = 0
    /\ conn = [c \in Conns |-> IdleConn]
    /\ nread = [k \in NotifKeys |-> 0]
    /\ gone = {}
    /\ del = IdleDel
    /\ faults = 0
    /\ answered = NoUser
    /\ userRows = <<>>
    /\ reg = [g \in Regs |-> IdleReg]
    /\ tz = IdleClock

\* The cycles run one after the other; any query of a cycle may fail.
NextCycle ==
    \/ Tick
    \/ \E s \in Sweeps :
           \/ Alone(s) /\ SweepStart(s)
           \/ Alone(s) /\ SweepSelect(s)
           \/ Alone(s) /\ SweepRecent(s)
           \/ Alone(s) /\ SweepWinner(s)
           \/ Alone(s) /\ SweepUpdate(s)
           \/ Alone(s) /\ SweepNotifyWinner(s)
           \/ Alone(s) /\ SweepOthers(s)
           \/ Alone(s) /\ SweepNotifyLoser(s)
           \/ Alone(s) /\ SweepNotifyNone(s)
           \/ Alone(s) /\ SweepFail(s)

SpecCycle == InitCycle /\ [][NextCycle]_vars

\* C27 (failure isolation): when a query fails while the sweep is at one
\* auction and more selected auctions are left, the cycle goes on with the next
\* of them.
C27_FailureIsolated ==
    [][\A s \in Sweeps :
          (SweepFail(s) /\ Len(sw[s].rows) > 1) => sw'[s] = Continue(s)]_vars

\* C28 (failure leaves the auction retryable): when a query fails while the
\* sweep is at an auction, that auction is 'active' afterwards, so that the next
\* cycle selects it again.
C28_FailureRetryable ==
    [][\A s \in Sweeps :
          (SweepFail(s) /\ sw[s].rows # <<>>) =>
              auctions'[Head(sw[s].rows)].status = "active"]_vars

\* ---- the recurring sweep ----

LiveMaxTime == MaxTime + GraceSeconds

TickLive ==
    /\ now < LiveMaxTime
    /\ now' = now + 1
    /\ UNCHANGED <<admin, deploy, auctions, bids, notifs, events, req, sw, closes, statusWrites>>

\* The timer fires again after the callback of the cycle before has returned.
CycleAgain(s) ==
    /\ sw[s].pc = "done"
    /\ IF TakesTime
       THEN sw' = [sw EXCEPT ![s] = [IdleSweep EXCEPT !.pc = "select", !.serverTime = now]]
       ELSE sw' = [sw EXCEPT ![s] = Selected(0)]
    /\ UNCHANGED <<admin, deploy, now, auctions, bids, notifs, events, req, closes, statusWrites>>

\* One auction and the bids stored so far, stamped at any instant up to now
\* (a bid stamped after end_time raced the deadline).
InitLive ==
    /\ deploy \in [server : ServerVariants, bids : BidsVariants]
    /\ now \in Times
    /\ auctions \in [Auctions -> [owner : Owners, base_price : BasePrices,
                                  end_time : EndTimes, status : {"active"}]]
    /\ bids \in BidTables(now)
    /\ notifs = [k \in NotifKeys |-> 0]
    /\ events = <<>>
    /\ req = [r \in Reqs |-> IdleReq]
    /\ sw = [s \in Sweeps |-> IdleSweep]
    /\ closes = [a \in Auctions |-> 0]
    /\ statusWrites = 0
    /\ conn = [c \in Conns |-> IdleConn]
    /\ nread = [k \in NotifKeys |-> 0]
    /\ gone = {}
    /\ del = IdleDel
    /\ faults = 0
    /\ answered = NoUser
    /\ userRows = <<>>
    /\ reg = [g \in Regs |-> IdleReg]
    /\ tz = IdleClock

\* The steps of the sweep that the store answers.
SweepRuns == SweepStep(1) \/ CycleAgain(1)

NextLive ==
    \/ TickLive
    \/ SweepStep(1)
    \/ CycleAgain(1)
    \/ SweepFail(1)

\* The clock advances, the timer keeps firing and a query that is sent is
\* answered; the store rejects at most MaxFaults queries.
SpecLive == InitLive /\ [][NextLive]_vars /\ WF_vars(TickLive) /\ WF_vars(SweepRuns)

SessionZones == {0, PoolZoneSeconds}

\* mysql2 turns a DATETIME column into a Date by reading its wall-clock value
\* in the pool's zone (timezone: "-06:00"): new Date(auction.end_time).
ToInstant(wall) == wall + PoolZoneSeconds

\* NOW(): the wall-clock value of the instant utc in the session zone.
StoreNow(utc, west) == utc - west

\* DateTime.utc().toSQL({ includeOffset: false }): the wall-clock value of the
\* instant utc in UTC.
UtcWall(utc) == StoreNow(utc, 0)

\* The validators: nowUTC >= endUTC (now >= endTime), instants of the process.
ValidatorPast(utc, wall) == utc >= ToInstant(wall)

\* The selection of the sweep, on wall-clock values inside the store.
SweepPast(utc, west, wall) ==
    CASE deploy.server = "server1" ->
             wall < StoreNow(utc, west) /\ StoreNow(utc, west) - wall >= MinPastEnd
      [] deploy.server = "server2" -> wall <= StoreNow(utc, west)
      [] deploy.server = "part004" ->
             wall < StoreNow(utc, west) /\ ~(StoreNow(utc, west) - wall < MinPastEnd)
      [] OTHER -> wall <= UtcWall(utc)

Verdict(past) == IF past THEN "past" ELSE "before"

\* The instants the clock starts at: just before end_time read as UTC, and
\* just before end_time read in the pool's zone.
ClockStarts(wall) == {wall - 1, ToInstant(wall) - 1}

InitClock ==
    /\ deploy \in [server : ServerVariants, bids : BidsVariants]
    /\ now = 0
    /\ auctions \in [Auctions -> [owner : Owners, base_price : BasePrices,
                                  end_time : EndTimes, status : {"active"}]]
    /\ bids = <<>>
    /\ notifs = [k \in NotifKeys |-> 0]
    /\ events = <<>>
    /\ req = [r \in Reqs |-> IdleReq]
    /\ sw = [s \in Sweeps |-> IdleSweep]
    /\ closes = [a \in Auctions |-> 0]
    /\ statusWrites = 0
    /\ conn = [c \in Conns |-> IdleConn]
    /\ nread = [k \in NotifKeys |-> 0]
    /\ gone = {}
    /\ del = IdleDel
    /\ faults = 0
    /\ answered = NoUser
    /\ userRows = <<>>
    /\ reg = [g \in Regs |-> IdleReg]
    /\ \E a \in Auctions, west \in SessionZones :
         \E t \in ClockStarts(auctions[a].end_time) :
           tz = [pc |-> "run", auc |-> a, west |-> west, utc |-> t, ticks |-> 0,
                 validator |-> "none", sweep |-> "none"]

Others == <<deploy, now, auctions, bids, notifs, events, req, sw, closes, statusWrites,
            conn, nread, gone, del, faults, answered, accounts>>

\* A second passes on the clock of the process; what was decided is of the past.
ClockTick ==
    /\ tz.ticks < MaxTime
    /\ tz' = [tz EXCEPT !.utc = @ + 1, !.ticks = @ + 1, !.validator = "none", !.sweep = "none"]
    /\ UNCHANGED Others

\* A bid handler reads the auction and compares its end_time with the clock.
ValidatorReads ==
    /\ tz.validator = "none"
    /\ tz' = [tz EXCEPT !.validator = Verdict(ValidatorPast(tz.utc, auctions[tz.auc].end_time))]
    /\ UNCHANGED Others

\* The sweep runs its selection.
SweepSelects ==
    /\ tz.sweep = "none"
    /\ tz' = [tz EXCEPT !.sweep = Verdict(SweepPast(tz.utc, tz.west, auctions[tz.auc].end_time))]
    /\ UNCHANGED Others

NextClock == ClockTick \/ ValidatorReads \/ SweepSelects

SpecClock == InitClock /\ [][NextClock]_vars

\* C29 (one clock for end_time): when a validator and the sweep decide at the
\* same instant whether the end_time of an auction has passed, they decide the
\* same, whatever the zone of the store session.
C29_OneClock ==
    (tz.validator # "none" /\ tz.sweep # "none") => tz.validator = tz.sweep

\* ---- the bids table as a log ----

UpdateEvents(a) == SelectSeq(events, LAMBDA e : e.type = "updateBids" /\ e.auc = a)

\* C32 (reported highest is the real highest): every updateBids event carries
\* the highest amount stored for its auction at the moment it is emitted, and
\* the amounts broadcast for an auction never decrease.
C32_ReportedIsHighest ==
    [][(Len(events') = Len(events) + 1 /\ events'[Len(events')].type = "updateBids") =>
          LET e == events'[Len(events')] IN
          /\ e.amount = HighestRow(e.auc)
          /\ \A i \in 1..Len(UpdateEvents(e.auc)) : UpdateEvents(e.auc)[i].amount <= e.amount]_vars

\* ---- visitors on the live channel ----

\* socket.join(`user_${decoded.id}`): only the second revision of io.use joins
\* a room, and only after the token of the handshake verified.
Joined(c) == conn[c].state = "user" /\ SocketVariant = "socket2"

\* io.emit reaches every connected socket, whatever rooms it is in.
Audience == {c \in Conns : conn[c].state \in {"user", "visitor"}}

\* A handler that takes a message without a token for an authenticated one.
MessageAdmittedLax(mt) == mt = "absent" \/ Verifies(mt)

\* The newBid handler verifies the token of the message itself
\* (jwt.verify(data.token, ...)), whatever the handshake carried.
MessageAdmitted(mt) == Verifies(mt)

\* What the caller is told when the token of the message does not verify: the
\* first revision throws into its catch (errorBid "Error al procesar la puja"),
\* the second answers "Token requerido." / "Token inválido o expirado.".
TokenOutcome == IF SocketVariant = "socket1" THEN "error" ELSE "unauthorized"

\* A newBid message with token mt on connection c.
SocketMessage(c, r, mt, a, u, m, txt) ==
    /\ conn[c].state \in {"user", "visitor"}
    /\ IF MessageAdmitted(mt)
       THEN BidArrive(r, "socket", a, u, m, txt)
       ELSE /\ req[r].pc = "idle"
            /\ \A q \in Reqs : q < r => req[q].pc # "idle"
            /\ Started < MaxOps
            /\ Finish(r, TokenOutcome)
    /\ conn' = [conn EXCEPT ![c].msgs = @ + 1]
    /\ UNCHANGED <<aux, nread, gone, del, deploy, now, auctions, bids, notifs, events, sw,
                   closes, statusWrites>>

NextObserver ==
    \/ \E c \in Conns, cred \in Creds : Connect(c, cred)
    \/ \E c \in Conns, r \in Reqs :
           /\ conn[c].state \in {"user", "visitor"}
           /\ req[r].pc = "idle"
           /\ \E mt \in Creds, a \in AuctionIds, u \in Users, m \in Amounts, txt \in BOOLEAN :
                  SocketMessage(c, r, mt, a, u, m, txt)
    \/ \E r \in Reqs : BidReadHighest(r)
    \/ \E r \in Reqs : BidInsert(r)
    \/ \E r \in Reqs : BidEmit(r)

SpecObserver == Init /\ [][NextObserver]_vars

\* C33 (observer capacity): a connection admitted without a credential is in
\* no per-user room and is in the audience of the public broadcasts, and a
\* newBid message whose token does not verify ends right there with an error
\* answer and stores nothing.
C33_ObserverCapacity ==
    [][/\ \A c \in Conns : conn'[c].state = "visitor" => (~Joined(c)' /\ c \in Audience')
       /\ \A c \in Conns, r \in Reqs :
             (/\ conn'[c].msgs = conn[c].msgs + 1
              /\ req[r].pc = "idle" /\ req'[r].pc # "idle"
              /\ \E mt \in Creds \ {"valid"}, a \in AuctionIds, u \in Users, m \in Amounts,
                    txt \in BOOLEAN : SocketMessage(c, r, mt, a, u, m, txt)) =>
                 /\ req'[r].pc = "done"
                 /\ req'[r].outcome = TokenOutcome
                 /\ bids' = bids]_vars

\* C33: a visitor has sent a message that was refused for its token, and an
\* updateBids event of an accepted bid was broadcast while it was connected.
C33_VisitorRefused ==
    /\ \E c \in Conns : conn[c].state = "visitor" /\ conn[c].msgs >= 1
    /\ \E r \in Reqs : req[r].pc = "done" /\ req[r].outcome = "unauthorized"
    /\ \E i \in 1..Len(events) : events[i].type = "updateBids"

\* ---- the timer and the sweep in flight ----

\* The executions of the sweep that are awaiting a store operation.
InFlight == {s \in Sweeps : sw[s].pc \notin {"idle", "done"}}

\* C34 (sweep does not overlap itself): at most one execution of the sweep is
\* in flight at any time.
C34_NoOverlap == Cardinality(InFlight) <= 1

\* ---- the two paths of a bid, side by side ----

\* The decision of the handler of path p for a bid of the number m on auction
\* a, run on its own from the current state of the store: the reason of the
\* rejection, or "accepted".
Decision(p, a, m) ==
    IF Validate(p, a, m) # "pass" THEN Validate(p, a, m)
    ELSE IF p = "rest" /\ deploy.bids = "rest1"
         THEN IF CondInsertOk(a, m) THEN "accepted" ELSE "invalidbid"
         ELSE LET thr == IF p = "socket" /\ SocketVariant = "socket1"
                         THEN Threshold1(auctions[a].base_price, HighestRow(a))
                         ELSE Threshold2(auctions[a].base_price, HighestRow(a))
              IN  IF m <= thr THEN "toolow" ELSE "accepted"

\* C35 (REST and socket validators agree): in every state of the store and at
\* every instant, for every auction id and amount, the REST handler and the
\* socket handler take the same decision: both accept, or both reject for the
\* same reason.
C35_PathsAgree ==
    \A a \in AuctionIds, m \in Amounts : Decision("socket", a, m) = Decision("rest", a, m)

\* ---- the DELETE routes of /api/notifications ----

\* The DELETE routes in the order the router declares them.
DeleteRoutes == <<"/:id", "/clear-read">>

\* Does the route match a path of one segment?  A parameter matches any segment.
Matches(route, path) == route = "/:id" \/ route = path

\* The route the router dispatches the path to: the first declared that matches.
Dispatch(path) ==
    DeleteRoutes[CHOOSE i \in 1..Len(DeleteRoutes) :
                     /\ Matches(DeleteRoutes[i], path)
                     /\ \A j \in 1..(i - 1) : ~Matches(DeleteRoutes[j], path)]

\* The row whose id_notification equals the segment: "clear-read" is the id of no row.
RowNamed(path) == NoRow

\* DELETE /clear-read by user u, answered with success.
ClearReadRequest(u) ==
    /\ answered = NoUser
    /\ answered' = u
    /\ IF Dispatch("/clear-read") = "/clear-read"
       THEN /\ notifs' = [k \in NotifKeys |-> IF Owns(u, k) THEN notifs[k] - nread[k] ELSE notifs[k]]
            /\ nread' = [k \in NotifKeys |-> IF Owns(u, k) THEN 0 ELSE nread[k]]
       ELSE LET ref == RowNamed("/clear-read") IN
            IF RowExists(ref) /\ Owns(u, ref[1])
            THEN /\ notifs' = [notifs EXCEPT ![ref[1]] = @ - 1]
                 /\ nread' = [nread EXCEPT ![ref[1]] = IF ref[2] THEN @ - 1 ELSE @]
            ELSE UNCHANGED <<notifs, nread>>
    /\ UNCHANGED <<faults, tz, accounts, conn, gone, del, deploy, now, auctions, bids, events,
                   req, sw, closes, statusWrites>>

NextClear ==
    \/ \E u \in Users, ref \in RowRefs : answered = NoUser /\ MarkRead(u, ref)
    \/ \E u \in Users : answered = NoUser /\ MarkAllRead(u)
    \/ \E u \in Users : ClearReadRequest(u)

SpecClear == InitNotif /\ [][NextClear]_vars

\* C36 (clear-read removes exactly the read notifications): a DELETE
\* /clear-read request of user u removes every notification of u that is read
\* and leaves the unread ones.
C36_ClearReadClears ==
    [][\A u \in Users :
          (answered = NoUser /\ answered' = u) =>
              \A k \in NotifKeys :
                  Owns(u, k) => (nread'[k] = 0 /\ notifs'[k] = notifs[k] - nread[k])]_vars

\* ---- POST /api/users/register ----

\* The users rows that hold the username.
RowsNamed(n) == {i \in 1..Len(userRows) : userRows[i] = n}

EndReg(g, out) == reg' = [reg EXCEPT ![g] = [pc |-> "done", name |-> reg[g].name, outcome |-> out]]

Core == <<deploy, now, auctions, bids, notifs, events, req, sw, closes, statusWrites,
          conn, nread, gone, del, faults, tz, answered>>

\* SELECT * FROM users WHERE username = ?: 409 when a row exists; otherwise
\* the handler goes on to hash the password and to insert.
RegStart(g, n) ==
    /\ reg[g].pc = "idle"
    /\ \A h \in Regs : h < g => reg[h].pc # "idle"
    /\ IF RowsNamed(n) # {}
       THEN reg' = [reg EXCEPT ![g] = [pc |-> "done", name |-> n, outcome |-> "conflict"]]
       ELSE reg' = [reg EXCEPT ![g] = [pc |-> "insert", name |-> n, outcome |-> "none"]]
    /\ UNCHANGED <<Core, userRows>>

\* What the schema does with a second row of one username.  The schema is not
\* part of the repository: no unique index on users.username, or one.
UniqueRules == {"none", "unique"}

\* INSERT INTO users (username, password_hash) VALUES (?, ?): 201, or the
\* catch's 500 when a unique index rejects the row.
RegInsert(g) ==
    /\ reg[g].pc = "insert"
    /\ \E rule \in UniqueRules :
           IF rule = "unique" /\ RowsNamed(reg[g].name) # {}
           THEN /\ userRows' = userRows
                /\ EndReg(g, "error")
           ELSE /\ userRows' = Append(userRows, reg[g].name)
                /\ EndReg(g, "created")
    /\ UNCHANGED Core

NextRegister ==
    \/ \E g \in Regs, n \in Usernames : RegStart(g, n)
    \/ \E g \in Regs : RegInsert(g)

SpecRegister == Init /\ [][NextRegister]_vars

\* C37 (unique usernames under concurrency): at most one users row exists per
\* username, and a register request that reaches its insert when the username
\* is taken stores nothing and reports a conflict.
C37_UniqueUsernames ==
    [][/\ \A n \in Usernames : Cardinality(RowsNamed(n)') <= 1
       /\ \A g \in Regs :
              (reg[g].pc = "insert" /\ reg'[g].pc = "done" /\ RowsNamed(reg[g].name) # {}) =>
                  (reg'[g].outcome = "conflict" /\ userRows' = userRows)]_vars

====
